---- MODULE Spec2Model ----
(***************************************************************************)
(* Model of the ambulance dispatch server (src/app.py).                    *)
(*                                                                         *)
(*   Spec        the /get-nearest-ambulance handler, run by NumReq         *)
(*               concurrent requests against one Firestore collection and  *)
(*               one Distance Matrix service.                              *)
(*   SpecSolo    the same handler, one request on its own; SpecSoloFair    *)
(*               adds weak fairness on its steps.                          *)
(*   SpecApi     one request to each of /get-nearest-ambulance,            *)
(*               /fetch-route and /geocode-address, interleaved.           *)
(*   SpecDecode  decode_polyline applied to bounded input strings.         *)
(*                                                                         *)
(* Document ids are the integers 1..n; the collection streams in id order. *)
(* A document's 'ambulance_id' FIELD is data of its own: the handler reads *)
(* the field (line 100) and later uses it as a document key (line 147), so *)
(* the model keeps the two apart.                                          *)
(***************************************************************************)
EXTENDS Integers, Sequences, FiniteSets, TLC

\* ------------------------------------------------------------------ bounds
NumDocs == 2        \* at most this many documents in the collection
NumReq  == 2        \* dispatch requests that may be in flight together
MaxDist == 2        \* routing distances are 1..MaxDist metres
MaxLen  == 3        \* length of the generated polyline strings

\* --------------------------------------------------------- program values
Inf          == -1  \* float('inf'), the initial min_distance
NoneIdx      == 0   \* None: no nearest_ambulance / no duration yet
NotAvailable == 0   \* the default 'Not available' of a missing ambulance_id

DocIds   == 1 .. NumDocs
Requests == 1 .. NumReq

VARIABLES
    store,      \* Firestore collection 'ambulances': document id -> fields
    routing,    \* Distance Matrix reply for the destination of each document
    req,        \* per request: position in the handler and its locals
    dec_in,     \* decode_polyline: the argument (sequence of code points)
    dec_out,    \* decode_polyline: the outcome, once called
    route,      \* the /fetch-route request: position and locals
    geo         \* the /geocode-address request: position and locals

vars == <<store, routing, req, dec_in, dec_out, route, geo>>

\* ------------------------------------------------------------- datastore
\* isinstance(current_location, GeoPoint), line 98
LocationKinds == {"GeoPoint", "None", "dict"}

\* mutant: every location passes the filter
IsGeoPointAny(current_location) == current_location \in LocationKinds

IsGeoPoint(current_location) == current_location = "GeoPoint"

\* The documents a collection of n units can hold.  The 'ambulance_id' field
\* is the document's own id, absent, or the id of another document.  A
\* document without a GeoPoint never has its other fields read.
DocsOf(n) ==
    [ambulance_id : (1 .. n) \cup {NotAvailable},
     current_location : {"GeoPoint"},
     status : {"available"}]
    \cup
    [ambulance_id : {NotAvailable},
     current_location : LocationKinds \ {"GeoPoint"},
     status : {"available"}]

\* ------------------------------------------------------- routing service
\* One reply of requests.get(...).json(), lines 126-127.  raises: the call
\* or the JSON parse throws.  A reply that is not usable still carries a
\* distance field, which the handler must not read.
OkReply(d, dur) ==
    [raises |-> FALSE, status |-> "OK", rows |-> TRUE,
     elem_status |-> "OK", distance |-> d, duration |-> dur]

RepliesFor(doc) ==
    { OkReply(d, doc) : d \in 1 .. MaxDist }
    \cup
    { [OkReply(0, doc) EXCEPT !.elem_status = "ZERO_RESULTS"],
      [OkReply(0, doc) EXCEPT !.status = "REQUEST_DENIED", !.rows = FALSE,
                              !.elem_status = "absent"],
      [OkReply(0, doc) EXCEPT !.rows = FALSE, !.elem_status = "absent"],
      [OkReply(0, doc) EXCEPT !.raises = TRUE, !.status = "absent",
                              !.rows = FALSE, !.elem_status = "absent"] }

\* mutant: the element status is not looked at
ElementOkAny(data) == data.status = "OK" /\ data.rows

\* lines 129-131: top-level status OK, rows non-empty, element status OK
ElementOk(data) ==
    data.status = "OK" /\ data.rows /\ data.elem_status = "OK"

\* mutant: a later candidate at the same distance replaces the earlier one
CloserOrEqual(distance, min_distance) ==
    min_distance = Inf \/ distance <= min_distance

\* line 134: distance < min_distance, min_distance starting at float('inf')
Closer(distance, min_distance) ==
    min_distance = Inf \/ distance < min_distance

\* -------------------------------------------------------------- requests
\* The JSON body of a request, as lines 81-86 look at it.
Bodies ==
    [is_json : {FALSE}, has_location : {FALSE}, keys : {{}}]
    \cup
    [is_json : {TRUE}, has_location : {FALSE}, keys : {{}}]
    \cup
    [is_json : {TRUE}, has_location : {TRUE},
     keys : SUBSET {"latitude", "longitude"}]

NoResponse ==
    [code |-> 0, idx |-> NoneIdx, id |-> NotAvailable,
     distance_meters |-> Inf, duration |-> NoneIdx]

ReqInit ==
    [pc |-> "idle",
     body |-> [is_json |-> FALSE, has_location |-> FALSE, keys |-> {}],
     ambulance_data |-> <<>>,
     i |-> 0,
     min_distance |-> Inf,
     nearest_ambulance |-> NoneIdx,
     nearest_ambulance_time |-> NoneIdx,
     response |-> NoResponse,
     fetched |-> FALSE,     \* history: the collection was streamed
     queried |-> 0,         \* history: routing queries issued
     written |-> {},        \* history: documents this request updated
     prev_status |-> "none",\* history: status the update overwrote
     fault |-> "none"       \* history: what raised, if anything did
    ]

Respond(r, code) ==
    [req EXCEPT ![r].pc = "done", ![r].response.code = code]

\* lines 81-86
Receive(r, body) ==
    /\ req[r].pc = "idle"
    /\ IF ~body.is_json
         THEN req' = [Respond(r, 500) EXCEPT ![r].body = body,
                                                ![r].fault = "body"]
       ELSE IF ~body.has_location \/ body.keys = {}
         THEN req' = [Respond(r, 400) EXCEPT ![r].body = body]
       ELSE IF "latitude" \notin body.keys \/ "longitude" \notin body.keys
         THEN req' = [Respond(r, 500) EXCEPT ![r].body = body,
                                                ![r].fault = "body"]
       ELSE req' = [req EXCEPT ![r].pc = "fetch", ![r].body = body]
    /\ UNCHANGED <<store, routing, dec_in, dec_out, route, geo>>

\* lines 94-106: one candidate per document that holds a GeoPoint
Candidate(doc) ==
    [doc |-> doc,
     id |-> store[doc].ambulance_id,
     status |-> store[doc].status]

RECURSIVE Filter(_, _)
Filter(doc, n) ==
    IF doc > n THEN <<>>
    ELSE IF IsGeoPoint(store[doc].current_location)
      THEN <<Candidate(doc)>> \o Filter(doc + 1, n)
      ELSE Filter(doc + 1, n)

\* lines 89-113
Fetch(r) ==
    /\ req[r].pc = "fetch"
    /\ req' = [req EXCEPT ![r].pc = "loop",
                          ![r].fetched = TRUE,
                          ![r].ambulance_data = Filter(1, Len(store)),
                          ![r].i = 0,
                          ![r].min_distance = Inf,
                          ![r].nearest_ambulance = NoneIdx,
                          ![r].nearest_ambulance_time = NoneIdx]
    /\ UNCHANGED <<store, routing, dec_in, dec_out, route, geo>>

\* lines 89-90 raising (datastore unreachable), caught at line 165
FetchRaise(r) ==
    /\ req[r].pc = "fetch"
    /\ req' = [Respond(r, 500) EXCEPT ![r].fault = "stream"]
    /\ UNCHANGED <<store, routing, dec_in, dec_out, route, geo>>

\* line 126: requests.get is called for the next candidate and blocks
QueryIssue(r) ==
    /\ req[r].pc = "loop"
    /\ req[r].i < Len(req[r].ambulance_data)
    /\ req' = [req EXCEPT ![r].pc = "wait", ![r].queried = @ + 1]
    /\ UNCHANGED <<store, routing, dec_in, dec_out, route, geo>>

\* mutant: the duration of the previous winner is kept
TrackedStaleTime(r, k, data) ==
    [req EXCEPT ![r].pc = "loop",
                ![r].i = k,
                ![r].min_distance = data.distance,
                ![r].nearest_ambulance = k]

\* lines 135-137: the three tracked values are replaced together
Tracked(r, k, data) ==
    [req EXCEPT ![r].pc = "loop",
                ![r].i = k,
                ![r].min_distance = data.distance,
                ![r].nearest_ambulance = k,
                ![r].nearest_ambulance_time = data.duration]

\* lines 126-142: the call returns or raises; rest of the loop iteration
Query(r) ==
    /\ req[r].pc = "wait"
    /\ LET k    == req[r].i + 1
           data == routing[req[r].ambulance_data[k].doc]
       IN  IF data.raises
             THEN req' = [Respond(r, 500) EXCEPT ![r].fault = "query"]
           ELSE IF ElementOk(data) /\ Closer(data.distance, req[r].min_distance)
             THEN req' = Tracked(r, k, data)
           ELSE req' = [req EXCEPT ![r].pc = "loop", ![r].i = k]
    /\ UNCHANGED <<store, routing, dec_in, dec_out, route, geo>>

\* mutant: the write resets the unit
StatusWrittenAvailable == "available"

\* line 148: the only value the handler writes
StatusWritten == "busy"

\* lines 144-163: document(ambulance_id).update fails on a missing document
Reserve(r) ==
    /\ req[r].pc = "loop"
    /\ req[r].i = Len(req[r].ambulance_data)
    /\ IF req[r].nearest_ambulance = NoneIdx
         THEN req' = Respond(r, 404) /\ UNCHANGED store
       ELSE LET nearest == req[r].ambulance_data[req[r].nearest_ambulance]
                ambulance_id == nearest.id
            IN  IF ambulance_id \in DOMAIN store
                  THEN /\ store' = [store EXCEPT
                                      ![ambulance_id].status = StatusWritten]
                       /\ req' = [req EXCEPT
                            ![r].pc = "done",
                            ![r].written = @ \cup {ambulance_id},
                            ![r].prev_status = store[ambulance_id].status,
                            ![r].response =
                                [code |-> 200,
                                 idx |-> req[r].nearest_ambulance,
                                 id |-> nearest.id,
                                 distance_meters |-> req[r].min_distance,
                                 duration |-> req[r].nearest_ambulance_time]]
                  ELSE /\ req' = [Respond(r, 500) EXCEPT
                                    ![r].fault = "not_found"]
                       /\ UNCHANGED store
    /\ UNCHANGED <<routing, dec_in, dec_out, route, geo>>

\* mutant: the exception escapes the handler and no response is sent
UpdateRaiseUncaught(r) ==
    /\ req[r].pc = "loop"
    /\ req[r].i = Len(req[r].ambulance_data)
    /\ req[r].nearest_ambulance # NoneIdx
    /\ req' = [req EXCEPT ![r].pc = "crashed", ![r].fault = "update"]
    /\ UNCHANGED <<store, routing, dec_in, dec_out, route, geo>>

\* lines 147-149 raising (datastore unreachable), caught at line 165
UpdateRaise(r) ==
    /\ req[r].pc = "loop"
    /\ req[r].i = Len(req[r].ambulance_data)
    /\ req[r].nearest_ambulance # NoneIdx
    /\ req' = [Respond(r, 500) EXCEPT ![r].fault = "update"]
    /\ UNCHANGED <<store, routing, dec_in, dec_out, route, geo>>

\* ------------------------------------------------------- decode_polyline
\* A Python str is a sequence of code points; ord() reads one (lines 260, 272).
\* The printable characters from '?' (63) to '~' (126), in code order; the
\* backslash (92) and the grave accent (96) are written by name.
Ascii ==
    << "?", "@", "A", "B", "C", "D", "E", "F", "G", "H", "I", "J", "K", "L",
       "M", "N", "O", "P", "Q", "R", "S", "T", "U", "V", "W", "X", "Y", "Z",
       "[", "BACKSLASH", "]", "^", "_", "GRAVE", "a", "b", "c", "d", "e", "f", "g", "h",
       "i", "j", "k", "l", "m", "n", "o", "p", "q", "r", "s", "t", "u", "v",
       "w", "x", "y", "z", "{", "|", "}", "~" >>

ord(c) == 62 + (CHOOSE n \in 1 .. Len(Ascii) : Ascii[n] = c)

CodePoints(chars) == [n \in 1 .. Len(chars) |-> ord(chars[n])]

\* x | y on non-negative integers
RECURSIVE BitOr(_, _)
BitOr(x, y) ==
    IF x = 0 THEN y
    ELSE IF y = 0 THEN x
    ELSE (IF x % 2 = 1 \/ y % 2 = 1 THEN 1 ELSE 0)
         + 2 * BitOr(x \div 2, y \div 2)

\* (b & 0x1F) << shift: Python's & on a negative b is the two's complement one
Chunk(b, shift) == (b % 32) * (2 ^ shift)

\* mutant: the complement is replaced by a negation
ZigZagNegate(result) ==
    IF result % 2 = 1 THEN -(result \div 2) ELSE result \div 2

\* lines 266, 278: ~(result >> 1) if (result & 1) else (result >> 1)
ZigZag(result) ==
    IF result % 2 = 1 THEN -(result \div 2) - 1 ELSE result \div 2

\* mutant: a value of exactly 0x20 ends the chunk sequence
StopsAtOrBelow(b) == b <= 32

\* lines 264, 276: if b < 0x20: break
Stops(b) == b < 32

\* lines 259-265 and 271-277: index counts from 0; reading at index >= length
\* raises IndexError
RECURSIVE ReadValue(_, _, _, _)
ReadValue(polyline_str, index, shift, result) ==
    IF index >= Len(polyline_str)
      THEN [raised |-> TRUE, index |-> index, result |-> result]
    ELSE LET b    == polyline_str[index + 1] - 63
             next == BitOr(result, Chunk(b, shift))
         IN  IF Stops(b)
               THEN [raised |-> FALSE, index |-> index + 1, result |-> next]
               ELSE ReadValue(polyline_str, index + 1, shift + 5, next)

\* line 281: a point is [lat / 1e5, lng / 1e5]; the model keeps the two
\* accumulators, i.e. the coordinates in units of 1e-5 degree
Point(lat, lng) == <<lat, lng>>

\* lines 256-281: the outer loop from position index on
RECURSIVE DecodeFrom(_, _, _, _, _)
DecodeFrom(polyline_str, index, lat, lng, points) ==
    IF index >= Len(polyline_str)
      THEN [called |-> TRUE, raised |-> FALSE, points |-> points]
    ELSE LET a == ReadValue(polyline_str, index, 0, 0)
         IN  IF a.raised
               THEN [called |-> TRUE, raised |-> TRUE, points |-> <<>>]
             ELSE LET lat2 == lat + ZigZag(a.result)
                      o    == ReadValue(polyline_str, a.index, 0, 0)
                  IN  IF o.raised
                        THEN [called |-> TRUE, raised |-> TRUE, points |-> <<>>]
                      ELSE LET lng2 == lng + ZigZag(o.result)
                           IN  DecodeFrom(polyline_str, o.index, lat2, lng2,
                                          Append(points, Point(lat2, lng2)))

\* lines 248-282
decode_polyline(polyline_str) == DecodeFrom(polyline_str, 0, 0, 0, <<>>)

NotCalled == [called |-> FALSE, raised |-> FALSE, points |-> <<>>]

\* the reference example of the encoding: _p~iF~ps|U_ulLnnqC_mqNvxq, then
\* a grave accent and @
ExampleChars ==
    << "_", "p", "~", "i", "F", "~", "p", "s", "|", "U", "_", "u", "l", "L",
       "n", "n", "q", "C", "_", "m", "q", "N", "v", "x", "q", "GRAVE", "@" >>

Example == CodePoints(ExampleChars)

\* code points of the generated inputs: below '?', the digits 0, 1, 31 with
\* and without the continuation bit, and above '~'
DecodeCodes == {62, 63, 64, 94, 95, 96, 126, 127}

DecodeInputs ==
    {Example} \cup UNION { [1 .. n -> DecodeCodes] : n \in 0 .. MaxLen }

Decode ==
    /\ ~dec_out.called
    /\ dec_out' = decode_polyline(dec_in)
    /\ UNCHANGED <<store, routing, req, dec_in, route, geo>>

\* ----------------------------------------------------------- /fetch-route
\* The JSON body as lines 188-197 look at it.  ambulance_id 0 stands for a
\* missing or empty id, NumDocs + 1 for an id no document has.
RouteBodies ==
    [is_json : {FALSE}, has_data : {FALSE}, ambulance_id : {0},
     has_user : {FALSE}]
    \cup
    [is_json : {TRUE}, has_data : {FALSE}, ambulance_id : {0},
     has_user : {FALSE}]
    \cup
    [is_json : {TRUE}, has_data : {TRUE}, ambulance_id : 0 .. NumDocs + 1,
     has_user : BOOLEAN]

\* encoded paths the directions service may return: empty, one point, and
\* one cut in the middle of a value
Polylines == { <<>>, <<64, 65>>, <<95>> }

\* One outcome of requests.get(directions_url).json(), lines 220-231.
\* complete: routes[0].legs[0] and overview_polyline are all there.
DirectionsReplies ==
    [raises : {TRUE}, http_ok : {FALSE}, status : {"absent"},
     complete : {FALSE}, points : {<<>>}]
    \cup
    [raises : {FALSE}, http_ok : BOOLEAN, status : {"ZERO_RESULTS"},
     complete : {FALSE}, points : {<<>>}]
    \cup
    [raises : {FALSE}, http_ok : {FALSE}, status : {"OK"},
     complete : {FALSE}, points : {<<>>}]
    \cup
    [raises : {FALSE}, http_ok : {TRUE}, status : {"OK"},
     complete : {FALSE}, points : {<<>>}]
    \cup
    [raises : {FALSE}, http_ok : {TRUE}, status : {"OK"},
     complete : {TRUE}, points : Polylines]

RouteInit ==
    [pc |-> "idle",
     ambulance_id |-> 0,
     origin |-> 0,          \* document whose location is the origin
     code |-> 0,
     path |-> <<>>,
     read |-> 0,            \* history: document read at line 200
     calls |-> 0,           \* history: directions calls made
     directions |-> "none", \* history: what the directions call gave
     fault |-> "none"       \* history: what raised, if anything did
    ]

RouteRespond(code) == [route EXCEPT !.pc = "done", !.code = code]

\* lines 188-197.  Without a JSON body request.json is None (400) or
\* raises (500), depending on the Flask release.
RouteReceive(body) ==
    /\ route.pc = "idle"
    /\ IF ~body.is_json
         THEN \E code \in {400, 500} : route' = RouteRespond(code)
       ELSE IF ~body.has_data \/ body.ambulance_id = 0 \/ ~body.has_user
         THEN route' = RouteRespond(400)
       ELSE route' = [route EXCEPT !.pc = "get",
                                   !.ambulance_id = body.ambulance_id]
    /\ UNCHANGED <<store, routing, req, dec_in, dec_out, geo>>

\* mutant: reading the document releases the unit
RouteGetReleases ==
    /\ route.pc = "get"
    /\ route.ambulance_id \in DOMAIN store
    /\ store' = [store EXCEPT ![route.ambulance_id].status = "available"]
    /\ route' = [route EXCEPT !.pc = "directions",
                              !.read = route.ambulance_id,
                              !.origin = route.ambulance_id]
    /\ UNCHANGED <<routing, req, dec_in, dec_out, geo>>

\* mutant: the location read is not checked
RouteGetUnchecked ==
    /\ route.pc = "get"
    /\ IF route.ambulance_id \notin DOMAIN store
         THEN route' = RouteRespond(404)
       ELSE route' = [route EXCEPT !.pc = "directions",
                                   !.read = route.ambulance_id,
                                   !.origin = route.ambulance_id]
    /\ UNCHANGED <<store, routing, req, dec_in, dec_out, geo>>

\* lines 199-210
RouteGet ==
    /\ route.pc = "get"
    /\ IF route.ambulance_id \notin DOMAIN store
         THEN route' = RouteRespond(404)
       ELSE IF ~IsGeoPoint(store[route.ambulance_id].current_location)
         THEN route' = [RouteRespond(400) EXCEPT !.read = route.ambulance_id]
       ELSE route' = [route EXCEPT !.pc = "directions",
                                   !.read = route.ambulance_id,
                                   !.origin = route.ambulance_id]
    /\ UNCHANGED <<store, routing, req, dec_in, dec_out, geo>>

\* line 200 raising, caught at line 243
RouteGetRaise ==
    /\ route.pc = "get"
    /\ route' = [RouteRespond(500) EXCEPT !.fault = "get"]
    /\ UNCHANGED <<store, routing, req, dec_in, dec_out, geo>>

\* mutant: the HTTP status and the directions status are not looked at
DirectionsOkAny(directions_data) == directions_data.complete

\* line 223
DirectionsOk(directions_data) ==
    directions_data.http_ok /\ directions_data.status = "OK"

\* what the call of line 220 gave, as the caller of the service sees it
Outcome(directions_data) ==
    IF directions_data.raises THEN "raised"
    ELSE IF directions_data.http_ok /\ directions_data.status = "OK"
      THEN "ok"
      ELSE "not_ok"

\* lines 212-245
RouteDirections(directions_data) ==
    /\ route.pc = "directions"
    /\ LET called == [route EXCEPT !.calls = @ + 1,
                                   !.pc = "done",
                                   !.directions = Outcome(directions_data)]
       IN  IF directions_data.raises
             THEN route' = [called EXCEPT !.code = 500,
                                          !.fault = "directions"]
           ELSE IF DirectionsOk(directions_data)
             THEN IF ~directions_data.complete
                    THEN route' = [called EXCEPT !.code = 500,
                                                 !.fault = "incomplete"]
                  ELSE LET path_coords ==
                               decode_polyline(directions_data.points)
                       IN  IF path_coords.raised
                             THEN route' = [called EXCEPT
                                              !.code = 500,
                                              !.fault = "decode"]
                             ELSE route' = [called EXCEPT
                                              !.code = 200,
                                              !.path = path_coords.points]
           ELSE route' = [called EXCEPT !.code = 400]
    /\ UNCHANGED <<store, routing, req, dec_in, dec_out, geo>>

\* ------------------------------------------------------- /geocode-address
GeoBodies == [is_json : BOOLEAN, has_address : BOOLEAN]

GeocodeReplies ==
    [raises : {TRUE}, http_ok : {FALSE}, status : {"absent"},
     complete : {FALSE}]
    \cup
    [raises : {FALSE}, http_ok : BOOLEAN, status : {"OK", "ZERO_RESULTS"},
     complete : BOOLEAN]

GeoInit == [pc |-> "idle", code |-> 0]

GeoRespond(code) == [geo EXCEPT !.pc = "done", !.code = code]

\* lines 38-42
GeoReceive(body) ==
    /\ geo.pc = "idle"
    /\ IF ~body.is_json
         THEN \E code \in {400, 500} : geo' = GeoRespond(code)
       ELSE IF ~body.has_address
         THEN geo' = GeoRespond(400)
       ELSE geo' = [geo EXCEPT !.pc = "geocoding"]
    /\ UNCHANGED <<store, routing, req, dec_in, dec_out, route>>

\* lines 49-67
GeoCall(response_data) ==
    /\ geo.pc = "geocoding"
    /\ IF response_data.raises
         THEN geo' = GeoRespond(500)
       ELSE IF response_data.http_ok
         THEN IF response_data.status = "OK"
                THEN IF response_data.complete
                       THEN geo' = GeoRespond(200)
                       ELSE geo' = GeoRespond(500)
                ELSE geo' = GeoRespond(400)
       ELSE geo' = GeoRespond(500)
    /\ UNCHANGED <<store, routing, req, dec_in, dec_out, route>>

Init ==
    /\ \E n \in 0 .. NumDocs : store \in [1 .. n -> DocsOf(n)]
    /\ routing \in [DocIds -> UNION { RepliesFor(doc) : doc \in DocIds }]
    /\ \A doc \in DocIds : routing[doc] \in RepliesFor(doc)
    /\ \A doc \in DocIds :
          (doc \notin DOMAIN store \/ ~IsGeoPoint(store[doc].current_location))
             => routing[doc] = OkReply(1, doc)
    /\ req = [r \in Requests |-> ReqInit]
    /\ dec_in = <<>>
    /\ dec_out = NotCalled
    /\ route = RouteInit
    /\ geo = GeoInit

Next ==
    \/ \E r \in Requests, body \in Bodies : Receive(r, body)
    \/ \E r \in Requests : Fetch(r)
    \/ \E r \in Requests : FetchRaise(r)
    \/ \E r \in Requests : QueryIssue(r)
    \/ \E r \in Requests : Query(r)
    \/ \E r \in Requests : Reserve(r)
    \/ \E r \in Requests : UpdateRaise(r)

Spec == Init /\ [][Next]_vars

\* One request handled on its own.
NextSolo ==
    \/ \E body \in Bodies : Receive(1, body)
    \/ Fetch(1)
    \/ FetchRaise(1)
    \/ QueryIssue(1)
    \/ Query(1)
    \/ Reserve(1)
    \/ UpdateRaise(1)

SpecSolo == Init /\ [][NextSolo]_vars

\* The same, every call returning or raising in the end: a handler that can
\* take a step takes one.
SpecSoloFair == SpecSolo /\ WF_vars(NextSolo)

\* The three endpoints together: one dispatch request, one /fetch-route
\* request and one /geocode-address request, over a collection whose units
\* with a location may already be busy; every routing query succeeds.
ApiDocsOf(n) ==
    DocsOf(n) \cup
    { [d EXCEPT !.status = "busy"] :
          d \in { e \in DocsOf(n) : IsGeoPoint(e.current_location) } }

InitApi ==
    /\ \E n \in 0 .. NumDocs : store \in [1 .. n -> ApiDocsOf(n)]
    /\ routing = [doc \in DocIds |-> OkReply(1, doc)]
    /\ req = [r \in Requests |-> ReqInit]
    /\ dec_in = <<>>
    /\ dec_out = NotCalled
    /\ route = RouteInit
    /\ geo = GeoInit

NextApi ==
    \/ NextSolo
    \/ \E body \in RouteBodies : RouteReceive(body)
    \/ RouteGet
    \/ RouteGetRaise
    \/ \E directions_data \in DirectionsReplies :
          RouteDirections(directions_data)
    \/ \E body \in GeoBodies : GeoReceive(body)
    \/ \E response_data \in GeocodeReplies : GeoCall(response_data)

SpecApi == InitApi /\ [][NextApi]_vars

\* decode_polyline called once on an input of DecodeInputs.
InitDecode ==
    /\ store = <<>>
    /\ routing = [doc \in DocIds |-> OkReply(1, doc)]
    /\ req = [r \in Requests |-> ReqInit]
    /\ dec_in \in DecodeInputs
    /\ dec_out = NotCalled
    /\ route = RouteInit
    /\ geo = GeoInit

NextDecode == Decode

SpecDecode == InitDecode /\ [][NextDecode]_vars

\* ================================================================ claims
\* What the claims speak about, read off the request's history.
Done(r) == req[r].pc = "done"

Assigned(r) == Done(r) /\ req[r].response.code = 200

Candidates(r) == 1 .. Len(req[r].ambulance_data)

ReplyOf(r, k) == routing[req[r].ambulance_data[k].doc]

\* a routing query that succeeded: the call returned, top-level status OK and
\* element status OK
QuerySucceeded(data) ==
    ~data.raises /\ data.status = "OK" /\ data.elem_status = "OK"

Succeeded(r) == { k \in Candidates(r) : QuerySucceeded(ReplyOf(r, k)) }

DistinctDistances(r) ==
    \A j, k \in Succeeded(r) :
        j # k => ReplyOf(r, j).distance # ReplyOf(r, k).distance

\* the document the winning candidate was read from
WinnerDoc(r) == req[r].ambulance_data[req[r].response.idx].doc

SawAvailable(r) ==
    req[r].ambulance_data[req[r].response.idx].status = "available"

MalformedBody(body) ==
    \/ ~body.is_json
    \/ ~body.has_location
    \/ body.keys # {"latitude", "longitude"}

\* C1: of the requests that race for the same unit, each having read it as
\* `available`, at most one gets the 200 assignment.
C1_OneWinnerPerUnit ==
    \A r1, r2 \in Requests :
        (/\ r1 # r2
         /\ Assigned(r1) /\ Assigned(r2)
         /\ WinnerDoc(r1) = WinnerDoc(r2)
         /\ req[r1].written = {WinnerDoc(r1)}
         /\ req[r2].written = {WinnerDoc(r2)}
         /\ SawAvailable(r1) /\ SawAvailable(r2))
        => FALSE

\* C2: a request answers 200 only if the status its write replaced was
\* `available`.
C2_AssignsOnlyAvailable ==
    \A r \in Requests : Assigned(r) => req[r].prev_status = "available"

\* C3: when the successful queries report pairwise distinct distances, the
\* unit of a 200 response is a candidate whose query succeeded, is strictly
\* nearer than every other such candidate, and is reported with its distance.
C3_ReturnsGlobalMinimum ==
    \A r \in Requests :
        (Assigned(r) /\ DistinctDistances(r)) =>
            LET w == req[r].response.idx
            IN  /\ w \in Succeeded(r)
                /\ \A k \in Succeeded(r) \ {w} :
                       ReplyOf(r, w).distance < ReplyOf(r, k).distance
                /\ req[r].response.distance_meters = ReplyOf(r, w).distance

C3_Witness ==
    \E r \in Requests :
        /\ Assigned(r)
        /\ Cardinality(Succeeded(r)) >= 2
        /\ DistinctDistances(r)
        /\ req[r].response.idx > 1

\* C4: among the successful candidates at the minimum distance, the unit of
\* a 200 response is the first in the order of the candidate list.
C4_FirstOfTiesWins ==
    \A r \in Requests :
        Assigned(r) =>
            LET w == req[r].response.idx
            IN  \A k \in Succeeded(r) :
                    /\ ReplyOf(r, w).distance <= ReplyOf(r, k).distance
                    /\ ReplyOf(r, k).distance = ReplyOf(r, w).distance => w <= k

C4_Witness ==
    \E r \in Requests :
        /\ Assigned(r)
        /\ \E k \in Succeeded(r) :
              /\ k > req[r].response.idx
              /\ ReplyOf(r, k).distance = req[r].response.distance_meters

\* C5: with no document holding a valid location, a request that has read
\* the collection issues no routing query, writes nothing and ends in 404.
NoValidLocation ==
    \A doc \in DOMAIN store : store[doc].current_location # "GeoPoint"

C5_EmptyPoolNotFound ==
    \A r \in Requests :
        (NoValidLocation /\ req[r].fetched) =>
            /\ req[r].queried = 0
            /\ req[r].written = {}
            /\ \A doc \in DOMAIN store : store[doc].status = "available"
            /\ Done(r) => req[r].response.code = 404

C5_Witness ==
    \E r \in Requests :
        /\ NoValidLocation
        /\ store # <<>>
        /\ req[r].fetched
        /\ Done(r)
        /\ req[r].response.code = 404

\* C6: a request all of whose candidates' routing queries fail ends in 404
\* and has written nothing.
C6_AllQueriesFailNotFound ==
    \A r \in Requests :
        (Done(r) /\ req[r].fetched /\ Candidates(r) # {} /\ Succeeded(r) = {})
            => (req[r].response.code = 404 /\ req[r].written = {})

\* C7: a failed routing query does not end the evaluation: a finished
\* request has queried every candidate, and with a successful candidate
\* whose unit can be written it ends in 200.
C7_FailureDoesNotAbort ==
    \A r \in Requests :
        (/\ Done(r) /\ req[r].fetched
         /\ \E k \in Candidates(r) : ~QuerySucceeded(ReplyOf(r, k)))
        => /\ req[r].queried = Len(req[r].ambulance_data)
           /\ (/\ Succeeded(r) # {}
               /\ \A k \in Candidates(r) :
                     req[r].ambulance_data[k].id = req[r].ambulance_data[k].doc)
              => req[r].response.code = 200

\* C8: after a 200 the document the winner was read from is `busy`, it is
\* the only document the request wrote, and every other document is as it
\* was.
C8_OnlyWinnerBecomesBusy ==
    \A r \in Requests :
        Assigned(r) =>
            /\ store[WinnerDoc(r)].status = "busy"
            /\ req[r].written = {WinnerDoc(r)}
            /\ \A doc \in DOMAIN store \ {WinnerDoc(r)} :
                   store[doc].status = "available"

\* C9: decode_polyline of the reference example returns the three points
\* (38.5,-120.2), (40.7,-120.95), (43.252,-126.453), in units of 1e-5 degree.
C9_ReferenceExample ==
    (dec_out.called /\ dec_in = Example) =>
        dec_out = [called |-> TRUE, raised |-> FALSE,
                   points |-> << <<3850000, -12020000>>,
                                 <<4070000, -12095000>>,
                                 <<4325200, -12645300>> >>]

C9_Witness == dec_out.called /\ dec_in = Example

\* C10: a request with a missing or malformed body is answered 400 without
\* a datastore read, a routing query or a status write.
C10_MalformedBodyIs400 ==
    \A r \in Requests :
        (Done(r) /\ MalformedBody(req[r].body)) =>
            /\ req[r].response.code = 400
            /\ ~req[r].fetched
            /\ req[r].queried = 0
            /\ req[r].written = {}

\* C11: a request that has been received ends with one response, 200, 400,
\* 404 or 500, and the response then stays as it is.
C11_EveryRequestCompletes ==
    /\ \A r \in Requests :
          (req[r].pc # "idle") ~>
              (Done(r) /\ req[r].response.code \in {200, 400, 404, 500})
    /\ [][\A r \in Requests : Done(r) => req'[r] = req[r]]_vars

C11_Witness ==
    \E r \in Requests :
        Done(r) /\ req[r].fault = "update" /\ req[r].response.code = 500

\* C12: while one routing query of a request is outstanding and candidates
\* are left, the query for the next candidate can be issued.
C12_QueriesOverlap ==
    \A r \in Requests :
        (req[r].pc = "wait" /\ req[r].i + 1 < Len(req[r].ambulance_data))
            => ENABLED QueryIssue(r)

\* C13: no step of /fetch-route or /geocode-address changes a unit record.
C13_OnlyDispatchWrites ==
    [][(route' # route \/ geo' # geo) => store' = store]_vars

C13_Witness ==
    /\ route.pc = "done" /\ route.code = 200
    /\ geo.pc = "done"
    /\ \E doc \in DOMAIN store : store[doc].status = "busy"

\* C14: a record without a valid location is no candidate and is never
\* written by the request, and every record with a valid location is a
\* candidate.
CandidateDocs(r) == { req[r].ambulance_data[k].doc : k \in Candidates(r) }

C14_InvalidLocationExcluded ==
    \A r \in Requests :
        req[r].fetched =>
            /\ \A doc \in DOMAIN store :
                  store[doc].current_location # "GeoPoint"
                      => doc \notin CandidateDocs(r) /\ doc \notin req[r].written
            /\ \A doc \in DOMAIN store :
                  store[doc].current_location = "GeoPoint"
                      => doc \in CandidateDocs(r)

\* C15: with a record that lacks an identifier among the candidates, a
\* request in which no external call raised ends in 200 or 404.
C15_MissingIdCompletes ==
    \A r \in Requests :
        (/\ Done(r) /\ req[r].fetched
         /\ \E k \in Candidates(r) : req[r].ambulance_data[k].id = NotAvailable
         /\ req[r].fault \notin {"query", "update"})
        => req[r].response.code \in {200, 404}

\* The values decode_polyline reads from a string, each as the positions
\* (from, to] of its characters, and the position where the last complete
\* value ends.
RECURSIVE ValueSpans(_, _)
ValueSpans(polyline_str, index) ==
    IF index >= Len(polyline_str) THEN <<>>
    ELSE LET v == ReadValue(polyline_str, index, 0, 0)
         IN  IF v.raised THEN <<>>
             ELSE <<[from |-> index, to |-> v.index]>>
                  \o ValueSpans(polyline_str, v.index)

LastEnd(spans) == IF spans = <<>> THEN 0 ELSE spans[Len(spans)].to

\* bit 0x20 of the two's complement value b
BitSet(b) == (b \div 32) % 2 = 1

BitTestAgrees(polyline_str) ==
    LET spans == ValueSpans(polyline_str, 0)
    IN  /\ \A n \in 1 .. Len(spans) :
              /\ \A p \in spans[n].from + 1 .. spans[n].to - 1 :
                    BitSet(polyline_str[p] - 63)
              /\ ~BitSet(polyline_str[spans[n].to] - 63)
        /\ \A p \in LastEnd(spans) + 1 .. Len(polyline_str) :
              BitSet(polyline_str[p] - 63)

InAlphabet(polyline_str) ==
    \A p \in 1 .. Len(polyline_str) :
        polyline_str[p] >= 63 /\ polyline_str[p] <= 126

\* C16 as stated: on every input, every value read runs over the characters
\* whose bit 0x20 is set and ends at the first whose bit is clear.
C16_BitTestOnAllCharacters ==
    dec_out.called => BitTestAgrees(dec_in)

\* C16 as amended: the same for the strings over the characters 63..126.
C16_BitTestOnAlphabet ==
    (dec_out.called /\ InAlphabet(dec_in)) => BitTestAgrees(dec_in)

C16_Witness ==
    /\ dec_out.called
    /\ InAlphabet(dec_in)
    /\ \E n \in 1 .. Len(ValueSpans(dec_in, 0)) :
          ValueSpans(dec_in, 0)[n].to - ValueSpans(dec_in, 0)[n].from >= 2

\* C17: on every string over the characters 63..126, also one that ends
\* inside a value or after a latitude, decode_polyline returns, with one
\* point per complete pair of values.
C17_OnePointPerCompletePair ==
    (dec_out.called /\ InAlphabet(dec_in)) =>
        /\ ~dec_out.raised
        /\ Len(dec_out.points) = Len(ValueSpans(dec_in, 0)) \div 2

\* C18: the directions service is called only after the requested document
\* was read in this request and holds a GeoPoint, with that document's
\* location as origin; an unknown id ends in 404 and an invalid location in
\* 400 without a call; a 200 follows only an OK directions result.
C18_RouteReadsBeforeDirections ==
    /\ (route.pc = "directions" \/ route.calls > 0) =>
          /\ route.read = route.ambulance_id
          /\ route.read \in DOMAIN store
          /\ store[route.read].current_location = "GeoPoint"
          /\ route.origin = route.read
    /\ route.calls <= 1
    /\ (/\ route.pc = "done" /\ route.ambulance_id # 0
        /\ route.ambulance_id \notin DOMAIN store /\ route.fault # "get")
          => (route.code = 404 /\ route.calls = 0)
    /\ (/\ route.pc = "done" /\ route.read # 0
        /\ store[route.read].current_location # "GeoPoint")
          => (route.code = 400 /\ route.calls = 0)
    /\ (route.pc = "done" /\ route.directions = "not_ok")
          => (route.code = 400 /\ route.path = <<>>)
    /\ route.code = 200 => (route.calls = 1 /\ route.directions = "ok")

C18_Witness ==
    /\ route.pc = "done" /\ route.code = 200
    /\ route.path # <<>>
    /\ store[route.read].status = "busy"

\* C19: the tracked winner, distance and duration are those of one candidate
\* whose query succeeded, throughout the loop and in the 200 response.
C19_TrackedValuesAgree ==
    \A r \in Requests :
        LET n == req[r].nearest_ambulance
        IN  /\ n = NoneIdx =>
                  /\ req[r].min_distance = Inf
                  /\ req[r].nearest_ambulance_time = NoneIdx
            /\ n # NoneIdx =>
                  /\ n \in Candidates(r) /\ n <= req[r].i
                  /\ QuerySucceeded(ReplyOf(r, n))
                  /\ req[r].min_distance = ReplyOf(r, n).distance
                  /\ req[r].nearest_ambulance_time = ReplyOf(r, n).duration
            /\ Assigned(r) =>
                  /\ req[r].response.idx = n /\ n # NoneIdx
                  /\ req[r].response.id = req[r].ambulance_data[n].id
                  /\ req[r].response.distance_meters = ReplyOf(r, n).distance
                  /\ req[r].response.distance_meters # Inf
                  /\ req[r].response.duration = ReplyOf(r, n).duration

C19_Witness ==
    \E r \in Requests :
        /\ Assigned(r)
        /\ req[r].response.idx = 2
        /\ Cardinality(Succeeded(r)) = 2

\* C20: a step changes a unit's status only to `busy`, and a busy unit stays
\* busy.
C20_BusyOnlyGrows ==
    [][\A doc \in DOMAIN store :
          /\ store'[doc].status # store[doc].status
                => store'[doc].status = "busy"
          /\ store[doc].status = "busy" => store'[doc].status = "busy"]_vars

C20_Witness ==
    /\ \E r \in Requests : Assigned(r) /\ req[r].prev_status = "busy"
    /\ route.pc = "done"
    /\ geo.pc = "done"

====
